---- MODULE Spec2Model ----
(***************************************************************************)
(* Authentication / session subsystem of the Knowledge Vault backend:      *)
(* users, refresh-token rows, stateless access tokens, and the requests    *)
(* (register, login, refresh, logout, revoke-all, /me) that act on them.   *)
(* Every request runs in its own database session.  The committed         *)
(* database is `users` and `tokens`; what a session has loaded or decided  *)
(* but not committed lives in `req`.  A handler is cut into actions at     *)
(* the awaits whose order against other sessions matters: a read of data   *)
(* that no request changes (a user's e-mail and password hash, the claims  *)
(* of a JWT) is taken together with the step that follows it.              *)
(***************************************************************************)
EXTENDS Integers, Sequences, FiniteSets, TLC

(* ------------------------------ bounds --------------------------------- *)
MaxTokens == 3
MaxUsers == 2
MaxTicks == 1
MaxRaceUsers == 1
MaxRateRequests == 4
MaxAdvances == 2
MaxSessions == 3
MaxCookieValues == 2
MaxPrefValue == 2
Procs == {1, 2}

(* ------------------------- program constants --------------------------- *)
ACCESS_TOKEN_EXPIRE_MINUTES == 30
REFRESH_TOKEN_EXPIRE_DAYS == 30
\* the clock counts minutes
AccessTTL == ACCESS_TOKEN_EXPIRE_MINUTES * 1
RefreshTTL == REFRESH_TOKEN_EXPIRE_DAYS * 24 * 60

\* None of a lookup that matched nothing (row ids and user ids start at 1)
NoRow == 0
\* the refresh-token cookie is absent from the request
NoCookie == 0
\* a plaintext that generate_refresh_token never returned
Forged == MaxTokens + 1

Emails == {"a@x.com", "A@x.com", "b@x.com"}
\* the registration forms clients send
RegisterInputs ==
    {[email |-> "a@x.com", username |-> "alice", password |-> "Aaaaaaa1!"],
     [email |-> "A@x.com", username |-> "alice", password |-> "Aaaaaaa1!"],
     [email |-> "b@x.com", username |-> "bob", password |-> "Aaaaaaa1!"]}
\* the forms of overlapping registrations: the same e-mail address with
\* another username and the same username with another address as well
OverlappingInputs ==
    RegisterInputs \cup
        {[email |-> "A@x.com", username |-> "bob", password |-> "Aaaaaaa1!"]}
LoginPasswords == {"Aaaaaaa1!", "Bbbbbbb2!"}
TickDeltas == {AccessTTL, RefreshTTL}

\* users, tokens: the committed tables; now: datetime.now(UTC) in minutes;
\* slots: how many requests the server runs at once; req, resp: the
\* requests in flight and the last response per client connection;
\* ticks, access_tokens, successor: history (clock steps taken, the JWTs
\* issued so far, which row a rotation replaced by which)
VARIABLES users, tokens, now, ticks, slots, req, resp, access_tokens, successor

\* http_request, http_response: a request at the csrf_origin_validation
\* middleware and what the middleware answered
VARIABLES http_request, http_response

\* settings: the configured rate limit of the endpoint; _windows,
\* _last_cleanup: the fields of the SlidingWindowRateLimiter; clock:
\* time.time() in seconds; rate_limit: the last request at the rate-limit
\* dependency and its outcome; rl_log: history, every decision of is_allowed;
\* advances: history, clock steps taken
VARIABLES settings, _windows, _last_cleanup, clock, rate_limit, rl_log, advances

limiterVars ==
    <<settings, _windows, _last_cleanup, clock, rate_limit, rl_log, advances>>
csrfVars == <<http_request, http_response>>

\* sessions: the committed sessions table; start: the create_session calls
\* in flight and what the last call of each client returned
VARIABLES sessions, start

\* projects: the status of each user's learning project
VARIABLES projects

\* preferences: the preferences column of the user's row; prefs_update: the
\* last PUT /pomodoro/preferences and its response
VARIABLES preferences, prefs_update

prefsVars == <<preferences, prefs_update>>
pomodoroVars == <<sessions, start, projects, prefsVars>>

\* jar: the cookies a browser holds; client: the path and the Cookie header
\* of its last request, and (history) the last two responses it applied
VARIABLES jar, client

cookieVars == <<jar, client>>

\* the state outside the auth tables and requests
otherVars == <<csrfVars, limiterVars, pomodoroVars, cookieVars>>

vars == <<users, tokens, now, ticks, slots, req, resp, access_tokens, successor,
          otherVars>>

\* the auth tables and requests
authVars == <<users, tokens, now, ticks, slots, req, resp, access_tokens, successor>>

(* --------------------------- pure functions ---------------------------- *)
\* str.lower() on the e-mail addresses of the model
Lower(e) == IF e = "A@x.com" THEN "a@x.com" ELSE e

\* bcrypt digest of a password (the salt is not modelled)
get_password_hash(password) == <<"bcrypt", password>>

verify_password(plain_password, hashed_password) ==
    hashed_password = get_password_hash(plain_password)

\* SHA-256 hex digest of the plaintext (injective on the model's plaintexts)
hash_refresh_token(token) == <<"sha256", token>>

\* jwt.encode of {"sub": ..., "exp": now + expires_delta}
create_access_token(sub, expires_delta) == [sub |-> sub, exp |-> now + expires_delta]

_create_access_token_for_user(uid) == create_access_token(uid, AccessTTL)

\* jwt.decode: the signature is valid for every issued token; python-jose
\* raises ExpiredSignatureError iff exp < now
JwtDecodes(a) == ~(a.exp < now)

(* ------------------------------ queries -------------------------------- *)
RowIds == 1..Len(tokens)
UserIds == 1..Len(users)

\* select(RefreshToken).where(token_hash == h) ... .first()
RowByHash(h) ==
    IF \E r \in RowIds : tokens[r].token_hash = h
    THEN CHOOSE r \in RowIds : tokens[r].token_hash = h
    ELSE NoRow

\* select(User).filter(func.lower(User.email) == e) ... .first()
UserByEmail(e) ==
    IF \E u \in UserIds : Lower(users[u].email) = e
    THEN CHOOSE u \in UserIds : Lower(users[u].email) = e
    ELSE NoRow

\* select(User).filter(User.username == n) ... .first()
UserByUsername(n) ==
    IF \E u \in UserIds : users[u].username = n
    THEN CHOOSE u \in UserIds : users[u].username = n
    ELSE NoRow

\* verify_refresh_token: the row of the plaintext if unexpired and unrevoked
verify_refresh_token(token) ==
    LET r == RowByHash(hash_refresh_token(token)) IN
    IF r # NoRow /\ tokens[r].expires_at > now /\ ~tokens[r].is_revoked
    THEN r ELSE NoRow

\* the row a session holds under SELECT ... FOR UPDATE
HoldsLock(p, r) == req[p].lock /\ req[p].row = r
LockedByOther(p, r) == \E q \in Procs \ {p} : HoldsLock(q, r)

\* get_current_user bound to a live session of the user
get_current_user_session_bound(a) ==
    IF /\ JwtDecodes(a)
       /\ a.sub \in UserIds
       /\ \E r \in RowIds : tokens[r].user_id = a.sub /\ ~tokens[r].is_revoked
    THEN a.sub ELSE NoRow

\* get_current_user: the user of an access token, NoRow for a 401
get_current_user(a) ==
    IF JwtDecodes(a) /\ a.sub \in UserIds THEN a.sub ELSE NoRow

(* --------------------------- request records --------------------------- *)
Idle == [pc |-> "idle", op |-> "none", tok |-> NoCookie, row |-> NoRow,
         rev |-> FALSE, lock |-> FALSE, uid |-> NoRow, uact |-> FALSE,
         sel |-> {}, email |-> "", username |-> "", password |-> "",
         valid0 |-> FALSE, spent0 |-> FALSE, cause |-> "none"]

\* what stays known of a request once its response is out
Done(r) == [Idle EXCEPT !.pc = "done", !.op = r.op, !.tok = r.tok,
                        !.rev = r.rev, !.valid0 = r.valid0,
                        !.spent0 = r.spent0, !.cause = r.cause]

NoResp == [status |-> 0, detail |-> "", headers |-> "", refresh |-> NoCookie,
           access |-> {}, sub |-> NoRow, ret |-> FALSE, count |-> 0]

Response(status, detail) == [NoResp EXCEPT !.status = status, !.detail = detail]

\* HTTPException(401, detail, headers={"WWW-Authenticate": "Bearer"})
Unauthorized(detail) ==
    [NoResp EXCEPT !.status = 401, !.detail = detail,
                   !.headers = "WWW-Authenticate: Bearer"]

InFlight(p) == req[p].pc \notin {"idle", "done"}

CanBegin(p) ==
    /\ p <= slots
    /\ ~InFlight(p)
    /\ Cardinality({q \in Procs : InFlight(q)}) < slots

\* rows that requests in flight will still insert
PendingInserts ==
    Cardinality({q \in Procs : req[q].pc \in
        {"reg_insert", "rot_select", "rot_user", "rot_commit"}})
\* the registrations in flight that can commit next to one of this e-mail
\* address and username (one that collides with it cannot)
PendingUsers(email, username) ==
    Cardinality({q \in Procs : /\ req[q].pc = "reg_insert"
                               /\ req[q].email # email
                               /\ req[q].username # username})

RoomForToken == Len(tokens) + PendingInserts < MaxTokens
UserCap == IF slots = 1 THEN MaxUsers ELSE MaxRaceUsers
RoomForUser(email, username) ==
    Len(users) + PendingUsers(email, username) < UserCap

\* no registration in flight takes the room of a new one
NoRegistrationOverlap ==
    Len(users) + Cardinality({q \in Procs : req[q].pc = "reg_insert"}) < UserCap

(* ------------------------------- Init ---------------------------------- *)
Empty ==
    /\ users = <<>>
    /\ tokens = <<>>
    /\ now = 0
    /\ ticks = 0
    /\ req = [p \in Procs |-> Idle]
    /\ resp = [p \in Procs |-> NoResp]
    /\ access_tokens = {}
    /\ successor = {}

\* a header that the request does not carry; a header's value is the
\* sequence of the parts of its text
Absent == [present |-> FALSE, value |-> <<>>]
Header(v) == [present |-> TRUE, value |-> v]

NoRequest == [method |-> "", Authorization |-> Absent, Origin |-> Absent,
              Referer |-> Absent]
NoResponse == [status |-> 0, detail |-> "", call_next |-> FALSE]

\* no request at the middleware
NoHttp ==
    /\ http_request = NoRequest
    /\ http_response = NoResponse

\* a request without forwarding headers, from nobody
NoRateRequest == [client |-> "", XForwardedFor |-> Absent, XRealIP |-> Absent,
                  sub |-> ""]
NoRateLimit ==
    [request |-> NoRateRequest, key |-> <<>>, is_allowed |-> FALSE,
     status |-> 0, limit |-> 0, remaining |-> 0, reset |-> 0, retry_after |-> 0]
NoSettings == [rate_limit_string |-> "", identifier_type |-> ""]

\* the limiter as constructed, no request yet
NewLimiter ==
    /\ _windows = <<>>
    /\ _last_cleanup = 0
    /\ clock = 0
    /\ rate_limit = NoRateLimit
    /\ rl_log = <<>>
    /\ advances = 0

NoLimiter == NewLimiter /\ settings = NoSettings

\* a client that has not called create_session
NoStart == [pc |-> "idle", user_id |-> 0, project |-> "none", path |-> "none",
            result |-> 0]

\* no session and no call in flight
\* the fields of PomodoroPreferences; a dict over them gives each field a
\* value or leaves it out
PreferenceFields ==
    {"work_duration", "break_duration", "long_break_duration",
     "long_break_interval"}
Unset == [set |-> FALSE, value |-> 0]
Field(v) == [set |-> TRUE, value |-> v]
EmptyDict == [f \in PreferenceFields |-> Unset]

\* User.preferences: default_factory=dict
NoPreferences == [pomodoro |-> EmptyDict, theme |-> ""]
NoUpdate == [status |-> 0, request |-> EmptyDict, response |-> EmptyDict]

SessionUsers == {1, 2}

\* create_learning_project: a project starts in_progress
NoArchive == [u \in SessionUsers |-> "in_progress"]

NoSessions ==
    /\ sessions = <<>>
    /\ start = [p \in Procs |-> NoStart]
    /\ projects = NoArchive
    /\ preferences = NoPreferences
    /\ prefs_update = NoUpdate

\* a browser without cookies
NoCookies ==
    /\ jar = {}
    /\ client = [path |-> "", cookies |-> {}, applied |-> <<"none", "none">>]

\* one request at a time
Init == Empty /\ slots = 1 /\ NoHttp /\ NoLimiter /\ NoSessions /\ NoCookies

\* two requests at a time
InitRace == Empty /\ slots = 2 /\ NoHttp /\ NoLimiter /\ NoSessions /\ NoCookies

(* --------------------------- create_refresh_token ---------------------- *)
\* NewRow owned by the user registered last
NewRowLastUser(uid) ==
    [user_id |-> Len(users),
     token_hash |-> hash_refresh_token(Len(tokens) + 1),
     expires_at |-> now + RefreshTTL,
     is_revoked |-> FALSE]

\* the row create_refresh_token inserts; its plaintext is the row's index
NewRow(uid) ==
    [user_id |-> uid,
     token_hash |-> hash_refresh_token(Len(tokens) + 1),
     expires_at |-> now + RefreshTTL,
     is_revoked |-> FALSE]

\* create_refresh_token that ends the user's other sessions
create_refresh_token_single_session(uid) ==
    Append([r \in RowIds |->
               IF tokens[r].user_id = uid
               THEN [tokens[r] EXCEPT !.is_revoked = TRUE]
               ELSE tokens[r]],
           NewRow(uid))

create_refresh_token(uid) == Append(tokens, NewRow(uid))

\* the access token, the refresh token and the 200 response of register/login
IssueTokens(p, done, uid) ==
    LET a == _create_access_token_for_user(uid) IN
    /\ tokens' = create_refresh_token(uid)
    /\ access_tokens' = access_tokens \cup {a}
    /\ resp' = [resp EXCEPT ![p] =
                  [Response(200, "") EXCEPT !.refresh = Len(tokens) + 1,
                                            !.access = {a}, !.sub = uid]]
    /\ req' = [req EXCEPT ![p] = done]

(* ------------------------------ register ------------------------------- *)
\* POST /auth/register: the two existence checks
BeginRegister(p, email_in, username, password) ==
    LET email == Lower(email_in) IN
    /\ CanBegin(p)
    /\ IF UserByEmail(email) # NoRow \/ UserByUsername(username) # NoRow
       THEN /\ req' = [req EXCEPT ![p] =
                         [Idle EXCEPT !.pc = "done", !.op = "register"]]
            /\ resp' = [resp EXCEPT ![p] = Response(400,
                  "Registration failed. Please use a different email or username.")]
       ELSE /\ RoomForUser(email, username)
            /\ RoomForToken
            /\ req' = [req EXCEPT ![p] =
                         [Idle EXCEPT !.pc = "reg_insert", !.op = "register",
                                      !.email = email, !.username = username,
                                      !.password = password]]
            /\ resp' = [resp EXCEPT ![p] = NoResp]
    /\ UNCHANGED <<users, tokens, now, ticks, slots, access_tokens, successor>>
    /\ UNCHANGED otherVars

\* RegisterInsert on a users table without unique indexes
RegisterInsertNoUnique(p) ==
    /\ req[p].pc = "reg_insert"
    /\ users' = Append(users,
          [email |-> req[p].email, username |-> req[p].username,
           password_hash |-> get_password_hash(req[p].password),
           is_active |-> TRUE])
    /\ IssueTokens(p, [Idle EXCEPT !.pc = "done", !.op = "register"],
                   Len(users) + 1)
    /\ UNCHANGED <<now, ticks, slots, successor>>
    /\ UNCHANGED otherVars

\* db.add(user); await db.commit() under the unique indexes of users, then
\* create_access_token, create_refresh_token and the response
RegisterInsert(p) ==
    /\ req[p].pc = "reg_insert"
    /\ IF \E u \in UserIds : \/ users[u].email = req[p].email
                             \/ users[u].username = req[p].username
       THEN \* IntegrityError: get_db rolls back, the request answers 500
            /\ req' = [req EXCEPT ![p] =
                         [Idle EXCEPT !.pc = "done", !.op = "register"]]
            /\ resp' = [resp EXCEPT ![p] = Response(500, "Internal Server Error")]
            /\ UNCHANGED <<users, tokens, access_tokens>>
       ELSE /\ users' = Append(users,
                   [email |-> req[p].email, username |-> req[p].username,
                    password_hash |-> get_password_hash(req[p].password),
                    is_active |-> TRUE])
            /\ IssueTokens(p, [Idle EXCEPT !.pc = "done", !.op = "register"],
                           Len(users) + 1)
    /\ UNCHANGED <<now, ticks, slots, successor>>
    /\ UNCHANGED otherVars

(* -------------------------------- login -------------------------------- *)
\* _authenticate_user that tells the caller the account does not exist
_authenticate_user_unknown_account(email, password) ==
    LET u == UserByEmail(Lower(email)) IN
    IF u = NoRow
    THEN [user |-> NoRow, cause |-> "no_user",
          raised |-> Unauthorized("Unknown account")]
    ELSE IF ~verify_password(password, users[u].password_hash)
    THEN [user |-> NoRow, cause |-> "bad_password",
          raised |-> Unauthorized("Incorrect email or password")]
    ELSE [user |-> u, cause |-> "none", raised |-> NoResp]

\* _authenticate_user: the user it returns, or the HTTPException it raises
_authenticate_user(email, password) ==
    LET u == UserByEmail(Lower(email)) IN
    IF u = NoRow
    THEN [user |-> NoRow, cause |-> "no_user",
          raised |-> Unauthorized("Incorrect email or password")]
    ELSE IF ~verify_password(password, users[u].password_hash)
    THEN [user |-> NoRow, cause |-> "bad_password",
          raised |-> Unauthorized("Incorrect email or password")]
    ELSE [user |-> u, cause |-> "none", raised |-> NoResp]

\* login_access_token / extension_login
Login(p, email, password) ==
    LET auth == _authenticate_user(email, password)
        done == [Idle EXCEPT !.pc = "done", !.op = "login",
                             !.email = Lower(email), !.password = password,
                             !.cause = auth.cause] IN
    /\ CanBegin(p)
    /\ IF auth.user = NoRow
       THEN /\ req' = [req EXCEPT ![p] = Done(done)]
            /\ resp' = [resp EXCEPT ![p] = auth.raised]
            /\ UNCHANGED <<tokens, access_tokens>>
       ELSE /\ RoomForToken
            /\ IssueTokens(p, done, auth.user)
    /\ UNCHANGED <<users, now, ticks, slots, successor>>
    /\ UNCHANGED otherVars

(* ------------------------------- refresh ------------------------------- *)
InvalidRefresh == Unauthorized("Invalid or expired refresh token")

\* whether rotate_refresh_token would refuse a plaintext in the committed state
RotateWouldFail(token) ==
    LET r == RowByHash(hash_refresh_token(token)) IN
    \/ r = NoRow
    \/ tokens[r].expires_at <= now
    \/ tokens[r].is_revoked
    \/ ~users[tokens[r].user_id].is_active

\* refresh_token / extension_refresh_token up to the call of rotate_refresh_token
BeginRefresh(p, ep, tok) ==
    /\ CanBegin(p)
    /\ IF tok = NoCookie
       THEN /\ ep = "cookie"
            /\ req' = [req EXCEPT ![p] =
                         [Idle EXCEPT !.pc = "done", !.op = "refresh"]]
            /\ resp' = [resp EXCEPT ![p] = Unauthorized("Refresh token not found")]
       ELSE /\ RoomForToken
            /\ req' = [req EXCEPT ![p] =
                         [Idle EXCEPT !.pc = "rot_select", !.op = "refresh",
                                      !.tok = tok,
                                      !.valid0 = ~RotateWouldFail(tok),
                                      !.spent0 = \E s \in successor :
                                          s[1] = RowByHash(hash_refresh_token(tok))]]
            /\ resp' = [resp EXCEPT ![p] = NoResp]
    /\ UNCHANGED <<users, tokens, now, ticks, slots, access_tokens, successor>>
    /\ UNCHANGED otherVars

\* RotateSelect with .with_for_update() left out
RotateSelectNoLock(p) ==
    LET r == RowByHash(hash_refresh_token(req[p].tok)) IN
    /\ req[p].pc = "rot_select"
    /\ IF r = NoRow
       THEN req' = [req EXCEPT ![p].pc = "rot_user"]
       ELSE req' = [req EXCEPT ![p].pc = "rot_user", ![p].row = r,
                               ![p].rev = tokens[r].is_revoked]
    /\ UNCHANGED <<users, tokens, now, ticks, slots, resp, access_tokens, successor>>
    /\ UNCHANGED otherVars

\* SELECT ... WHERE token_hash = :h FOR UPDATE: waits for the row lock, then
\* reads the row as last committed and holds the lock until the session ends
RotateSelect(p) ==
    LET r == RowByHash(hash_refresh_token(req[p].tok)) IN
    /\ req[p].pc = "rot_select"
    /\ IF r = NoRow
       THEN req' = [req EXCEPT ![p].pc = "rot_user"]
       ELSE /\ ~LockedByOther(p, r)
            /\ req' = [req EXCEPT ![p].pc = "rot_user", ![p].row = r,
                                  ![p].rev = tokens[r].is_revoked,
                                  ![p].lock = TRUE]
    /\ UNCHANGED <<users, tokens, now, ticks, slots, resp, access_tokens, successor>>
    /\ UNCHANGED otherVars

\* return (None, None, None) and the endpoint's 401; the session closes
FailRefresh(p, cause) ==
    /\ req' = [req EXCEPT ![p] = [Done(req[p]) EXCEPT !.cause = cause]]
    /\ resp' = [resp EXCEPT ![p] = InvalidRefresh]

\* RotateGetUser telling an expired token apart
RotateGetUserExpiredDetail(p) ==
    LET r == req[p].row IN
    /\ req[p].pc = "rot_user"
    /\ IF r = NoRow THEN FailRefresh(p, "missing")
       ELSE IF tokens[r].expires_at <= now
       THEN /\ req' = [req EXCEPT ![p] = [Done(req[p]) EXCEPT !.cause = "expired"]]
            /\ resp' = [resp EXCEPT ![p] = Unauthorized("Refresh token expired")]
       ELSE IF req[p].rev THEN FailRefresh(p, "revoked")
       ELSE /\ req' = [req EXCEPT ![p].pc = "rot_commit",
                                  ![p].uid = tokens[r].user_id,
                                  ![p].uact = users[tokens[r].user_id].is_active]
            /\ UNCHANGED resp
    /\ UNCHANGED <<users, tokens, now, ticks, slots, access_tokens, successor>>
    /\ UNCHANGED otherVars

\* RotateGetUser without "or row.is_revoked"
RotateGetUserIgnoreRevoked(p) ==
    LET r == req[p].row IN
    /\ req[p].pc = "rot_user"
    /\ IF r = NoRow THEN FailRefresh(p, "missing")
       ELSE IF tokens[r].expires_at <= now THEN FailRefresh(p, "expired")
       ELSE /\ req' = [req EXCEPT ![p].pc = "rot_commit",
                                  ![p].uid = tokens[r].user_id,
                                  ![p].uact = users[tokens[r].user_id].is_active]
            /\ UNCHANGED resp
    /\ UNCHANGED <<users, tokens, now, ticks, slots, access_tokens, successor>>
    /\ UNCHANGED otherVars

\* the validity check on the loaded row, then db.get(User, row.user_id)
RotateGetUser(p) ==
    LET r == req[p].row IN
    /\ req[p].pc = "rot_user"
    /\ IF r = NoRow THEN FailRefresh(p, "missing")
       ELSE IF tokens[r].expires_at <= now THEN FailRefresh(p, "expired")
       ELSE IF req[p].rev THEN FailRefresh(p, "revoked")
       ELSE /\ req' = [req EXCEPT ![p].pc = "rot_commit",
                                  ![p].uid = tokens[r].user_id,
                                  ![p].uact = users[tokens[r].user_id].is_active]
            /\ UNCHANGED resp
    /\ UNCHANGED <<users, tokens, now, ticks, slots, access_tokens, successor>>
    /\ UNCHANGED otherVars

\* RotateCommit without row.is_revoked = True
RotateCommitNoRevoke(p) ==
    LET r == req[p].row
        a == _create_access_token_for_user(req[p].uid) IN
    /\ req[p].pc = "rot_commit"
    /\ IF ~req[p].uact
       THEN /\ FailRefresh(p, "inactive")
            /\ UNCHANGED <<tokens, access_tokens, successor>>
       ELSE /\ tokens' = Append(tokens, NewRow(req[p].uid))
            /\ successor' = successor \cup {<<r, Len(tokens) + 1>>}
            /\ access_tokens' = access_tokens \cup {a}
            /\ req' = [req EXCEPT ![p] = Done(req[p])]
            /\ resp' = [resp EXCEPT ![p] =
                          [Response(200, "") EXCEPT !.refresh = Len(tokens) + 1,
                                                    !.access = {a},
                                                    !.sub = req[p].uid]]
    /\ UNCHANGED <<users, now, ticks, slots>>
    /\ UNCHANGED otherVars

\* RotateCommit with row.is_revoked = True ahead of the user check
RotateCommitRevokeFirst(p) ==
    LET r == req[p].row
        a == _create_access_token_for_user(req[p].uid) IN
    /\ req[p].pc = "rot_commit"
    /\ ~LockedByOther(p, r)
    /\ IF ~req[p].uact
       THEN /\ FailRefresh(p, "inactive")
            /\ tokens' = [tokens EXCEPT ![r].is_revoked = TRUE]
            /\ UNCHANGED <<access_tokens, successor>>
       ELSE /\ tokens' = Append([tokens EXCEPT ![r].is_revoked = TRUE],
                                NewRow(req[p].uid))
            /\ successor' = successor \cup {<<r, Len(tokens) + 1>>}
            /\ access_tokens' = access_tokens \cup {a}
            /\ req' = [req EXCEPT ![p] = Done(req[p])]
            /\ resp' = [resp EXCEPT ![p] =
                          [Response(200, "") EXCEPT !.refresh = Len(tokens) + 1,
                                                    !.access = {a},
                                                    !.sub = req[p].uid]]
    /\ UNCHANGED <<users, now, ticks, slots>>
    /\ UNCHANGED otherVars

\* RotateCommit writing the new hash and expiry into the consumed row
RotateCommitInPlace(p) ==
    LET r == req[p].row
        a == _create_access_token_for_user(req[p].uid) IN
    /\ req[p].pc = "rot_commit"
    /\ IF ~req[p].uact
       THEN /\ FailRefresh(p, "inactive")
            /\ UNCHANGED <<tokens, access_tokens, successor>>
       ELSE /\ ~LockedByOther(p, r)
            /\ tokens' = [tokens EXCEPT ![r] = NewRow(req[p].uid)]
            /\ successor' = successor \cup {<<r, r>>}
            /\ access_tokens' = access_tokens \cup {a}
            /\ req' = [req EXCEPT ![p] = Done(req[p])]
            /\ resp' = [resp EXCEPT ![p] =
                          [Response(200, "") EXCEPT !.refresh = Len(tokens) + 1,
                                                    !.access = {a},
                                                    !.sub = req[p].uid]]
    /\ UNCHANGED <<users, now, ticks, slots>>
    /\ UNCHANGED otherVars

\* the user check, then row.is_revoked = True, db.add(new_rt), one db.commit(),
\* and the endpoint's access token and response
RotateCommit(p) ==
    LET r == req[p].row
        a == _create_access_token_for_user(req[p].uid) IN
    /\ req[p].pc = "rot_commit"
    /\ IF ~req[p].uact
       THEN /\ FailRefresh(p, "inactive")
            /\ UNCHANGED <<tokens, access_tokens, successor>>
       ELSE /\ ~LockedByOther(p, r)
            /\ tokens' = Append([tokens EXCEPT ![r].is_revoked = TRUE],
                                NewRow(req[p].uid))
            /\ successor' = successor \cup {<<r, Len(tokens) + 1>>}
            /\ access_tokens' = access_tokens \cup {a}
            /\ req' = [req EXCEPT ![p] = Done(req[p])]
            /\ resp' = [resp EXCEPT ![p] =
                          [Response(200, "") EXCEPT !.refresh = Len(tokens) + 1,
                                                    !.access = {a},
                                                    !.sub = req[p].uid]]
    /\ UNCHANGED <<users, now, ticks, slots>>
    /\ UNCHANGED otherVars

(* ------------------------------- logout -------------------------------- *)
LoggedOut == Response(200, "Successfully logged out")

\* logout / extension_logout up to revoke_refresh_token.  logout first calls
\* verify_refresh_token (for its log line): a row that returns stays loaded in
\* the session, with is_revoked = False
BeginLogout(p, ep, tok) ==
    /\ CanBegin(p)
    /\ IF tok = NoCookie
       THEN /\ ep = "cookie"
            /\ req' = [req EXCEPT ![p] =
                         [Idle EXCEPT !.pc = "done", !.op = "logout"]]
            /\ resp' = [resp EXCEPT ![p] = LoggedOut]
       ELSE /\ req' = [req EXCEPT ![p] =
                         [Idle EXCEPT !.pc = "rev_select", !.op = "logout",
                                      !.tok = tok,
                                      !.row = IF ep = "cookie"
                                              THEN verify_refresh_token(tok)
                                              ELSE NoRow]]
            /\ resp' = [resp EXCEPT ![p] = NoResp]
    /\ UNCHANGED <<users, tokens, now, ticks, slots, access_tokens, successor>>
    /\ UNCHANGED otherVars

\* RevokeSelect with the filter is_revoked = False of verify_refresh_token
RevokeSelectUnrevokedOnly(p) ==
    LET r == RowByHash(hash_refresh_token(req[p].tok)) IN
    /\ req[p].pc = "rev_select"
    /\ IF r = NoRow \/ tokens[r].is_revoked
       THEN /\ req' = [req EXCEPT ![p] = Done(req[p])]
            /\ resp' = [resp EXCEPT ![p] = [LoggedOut EXCEPT !.ret = FALSE]]
       ELSE /\ req' = [req EXCEPT ![p].pc = "rev_commit", ![p].row = r,
                          ![p].rev = IF req[p].row = r THEN FALSE
                                     ELSE tokens[r].is_revoked]
            /\ UNCHANGED resp
    /\ UNCHANGED <<users, tokens, now, ticks, slots, access_tokens, successor>>
    /\ UNCHANGED otherVars

\* revoke_refresh_token: the select by token_hash (no lock, no filter); a row
\* the session has loaded already keeps its loaded attributes
RevokeSelect(p) ==
    LET r == RowByHash(hash_refresh_token(req[p].tok)) IN
    /\ req[p].pc = "rev_select"
    /\ IF r = NoRow
       THEN /\ req' = [req EXCEPT ![p] = Done(req[p])]
            /\ resp' = [resp EXCEPT ![p] = [LoggedOut EXCEPT !.ret = FALSE]]
       ELSE /\ req' = [req EXCEPT ![p].pc = "rev_commit", ![p].row = r,
                          ![p].rev = IF req[p].row = r THEN FALSE
                                     ELSE tokens[r].is_revoked]
            /\ UNCHANGED resp
    /\ UNCHANGED <<users, tokens, now, ticks, slots, access_tokens, successor>>
    /\ UNCHANGED otherVars

\* RevokeCommit without refresh_token.is_revoked = True
RevokeCommitNoWrite(p) ==
    /\ req[p].pc = "rev_commit"
    /\ req' = [req EXCEPT ![p] = Done(req[p])]
    /\ resp' = [resp EXCEPT ![p] = [LoggedOut EXCEPT !.ret = TRUE]]
    /\ UNCHANGED <<users, tokens, now, ticks, slots, access_tokens, successor>>
    /\ UNCHANGED otherVars

\* revoke_refresh_token: refresh_token.is_revoked = True; await db.commit();
\* return True.  The UPDATE is sent only when the loaded value was False, and
\* waits for a row lock another session holds.
RevokeCommit(p) ==
    LET r == req[p].row IN
    /\ req[p].pc = "rev_commit"
    /\ IF req[p].rev
       THEN UNCHANGED tokens
       ELSE /\ ~LockedByOther(p, r)
            /\ tokens' = [tokens EXCEPT ![r].is_revoked = TRUE]
    /\ req' = [req EXCEPT ![p] = Done(req[p])]
    /\ resp' = [resp EXCEPT ![p] = [LoggedOut EXCEPT !.ret = TRUE]]
    /\ UNCHANGED <<users, now, ticks, slots, access_tokens, successor>>
    /\ UNCHANGED otherVars

(* --------------------------- revoke-all-tokens ------------------------- *)
\* get_current_active_user: 200 with the user, 401 or 400
get_current_active_user(a) ==
    LET u == get_current_user(a) IN
    IF u = NoRow THEN Unauthorized("Could not validate credentials")
    ELSE IF ~users[u].is_active THEN Response(400, "Inactive user")
    ELSE [Response(200, "") EXCEPT !.sub = u]

RevokedAll(count) ==
    [Response(200, "All refresh tokens have been revoked") EXCEPT !.count = count]

\* revoke_all_tokens: get_current_active_user, then the select of
\* revoke_all_user_refresh_tokens (the user's unrevoked rows); with no row
\* selected nothing is committed and the count is 0
BeginRevokeAll(p, a) ==
    LET auth == get_current_active_user(a)
        sel == {r \in RowIds : tokens[r].user_id = auth.sub
                               /\ ~tokens[r].is_revoked} IN
    /\ CanBegin(p)
    /\ IF auth.status # 200
       THEN /\ req' = [req EXCEPT ![p] =
                         [Idle EXCEPT !.pc = "done", !.op = "revoke_all"]]
            /\ resp' = [resp EXCEPT ![p] = auth]
       ELSE IF sel = {}
       THEN /\ req' = [req EXCEPT ![p] =
                         [Idle EXCEPT !.pc = "done", !.op = "revoke_all",
                                      !.uid = auth.sub]]
            /\ resp' = [resp EXCEPT ![p] = RevokedAll(0)]
       ELSE /\ req' = [req EXCEPT ![p] =
                         [Idle EXCEPT !.pc = "ra_commit", !.op = "revoke_all",
                                      !.uid = auth.sub, !.sel = sel]]
            /\ resp' = [resp EXCEPT ![p] = NoResp]
    /\ UNCHANGED <<users, tokens, now, ticks, slots, access_tokens, successor>>
    /\ UNCHANGED otherVars

\* revoke_all_user_refresh_tokens: is_revoked = True on every selected row,
\* revoked_count, one db.commit() (its UPDATEs wait for foreign row locks)
RevokeAllCommit(p) ==
    /\ req[p].pc = "ra_commit"
    /\ \A r \in req[p].sel : ~LockedByOther(p, r)
    /\ tokens' = [r \in RowIds |->
                    IF r \in req[p].sel THEN [tokens[r] EXCEPT !.is_revoked = TRUE]
                    ELSE tokens[r]]
    /\ req' = [req EXCEPT ![p] = [Done(req[p]) EXCEPT !.uid = req[p].uid]]
    /\ resp' = [resp EXCEPT ![p] = RevokedAll(Cardinality(req[p].sel))]
    /\ UNCHANGED <<users, now, ticks, slots, access_tokens, successor>>
    /\ UNCHANGED otherVars

(* --------------------------------- /me --------------------------------- *)
\* read_users_me: get_current_active_user on the presented access token
ReadUsersMe(p, a) ==
    /\ CanBegin(p)
    /\ req' = [req EXCEPT ![p] = [Idle EXCEPT !.pc = "done", !.op = "me"]]
    /\ resp' = [resp EXCEPT ![p] = get_current_active_user(a)]
    /\ UNCHANGED <<users, tokens, now, ticks, slots, access_tokens, successor>>
    /\ UNCHANGED otherVars

(* ----------------------------- environment ----------------------------- *)
\* datetime.now(UTC) advances
Tick(d) ==
    /\ ticks < MaxTicks
    /\ now' = now + d
    /\ ticks' = ticks + 1
    /\ UNCHANGED <<users, tokens, slots, req, resp, access_tokens, successor>>
    /\ UNCHANGED otherVars

\* an operator clears users.is_active in the store (no endpoint sets it)
DeactivateUser(u) ==
    /\ users[u].is_active
    /\ users' = [users EXCEPT ![u].is_active = FALSE]
    /\ UNCHANGED <<tokens, now, ticks, slots, req, resp, access_tokens, successor>>
    /\ UNCHANGED otherVars

Endpoints == {"cookie", "ext"}
Plaintexts == RowIds \cup {Forged}

\* the requests clients send and the steps of the requests in flight
Requests ==
    \/ \E p \in Procs, f \in RegisterInputs :
          /\ NoRegistrationOverlap
          /\ BeginRegister(p, f.email, f.username, f.password)
    \/ \E p \in Procs : RegisterInsert(p)
    \/ \E p \in Procs, e \in Emails, w \in LoginPasswords : Login(p, e, w)
    \/ \E p \in Procs, ep \in Endpoints, t \in Plaintexts \cup {NoCookie} :
          BeginRefresh(p, ep, t)
    \/ \E p \in Procs : RotateSelect(p)
    \/ \E p \in Procs : RotateGetUser(p)
    \/ \E p \in Procs : RotateCommit(p)
    \/ \E p \in Procs, ep \in Endpoints, t \in Plaintexts \cup {NoCookie} :
          BeginLogout(p, ep, t)
    \/ \E p \in Procs : RevokeSelect(p)
    \/ \E p \in Procs : RevokeCommit(p)
    \/ \E p \in Procs, a \in access_tokens : BeginRevokeAll(p, a)
    \/ \E p \in Procs : RevokeAllCommit(p)
    \/ \E p \in Procs, a \in access_tokens : ReadUsersMe(p, a)

Next ==
    \/ Requests
    \/ \E d \in TickDeltas : Tick(d)
    \/ \E u \in UserIds : DeactivateUser(u)

\* one request at a time, while the clock advances and users are deactivated
Spec == Init /\ [][Next]_vars

\* two requests at a time, their steps interleaved
SpecRace == InitRace /\ [][Requests]_vars

\* registrations and logins, two at a time; registrations may overlap
RegisterRequests ==
    \/ \E p \in Procs, f \in OverlappingInputs :
          BeginRegister(p, f.email, f.username, f.password)
    \/ \E p \in Procs : RegisterInsert(p)
    \/ \E p \in Procs, e \in Emails, w \in LoginPasswords : Login(p, e, w)

SpecRegister == InitRace /\ [][RegisterRequests]_vars

(* ------------------------- CSRF origin guard --------------------------- *)
\* an origin "scheme://netloc" is the pair <<scheme, netloc>>; the text of a
\* Referer "scheme://netloc/path" is <<scheme, netloc, path>>, the empty
\* string is <<>> and any other text a single part
Url(scheme, netloc) == <<scheme, netloc>>

\* settings.ALLOWED_ORIGINS, as get_allowed_origins returns it
allowed_origins == {Url("http", "localhost:5173"), Url("http", "localhost:3000")}

Methods == {"GET", "HEAD", "OPTIONS", "POST", "PUT", "PATCH", "DELETE"}

\* Authorization headers: the words of the text, separated by one space
AuthorizationHeaders ==
    {Absent, Header(<<"Bearer", "jwt">>), Header(<<"bearer", "jwt">>),
     Header(<<"Basic", "dXNlcg==">>), Header(<<"Bearer">>)}

OriginHeaders ==
    {Absent, Header(<<>>), Header(<<"null">>),
     Header(Url("http", "localhost:5173")),
     Header(Url("https", "localhost:5173")),
     Header(Url("http", "evil.example"))}

RefererHeaders ==
    {Absent, Header(<<>>),
     Header(<<"http", "localhost:3000", "/notes">>),
     Header(<<"http", "localhost:3000.evil.example", "/">>),
     Header(<<"", "", "localhost:3000">>)}

HttpRequests ==
    [method : Methods, Authorization : AuthorizationHeaders,
     Origin : OriginHeaders, Referer : RefererHeaders]

\* str.lower() on the first word of an Authorization header
LowerWord(w) == IF w \in {"Bearer", "bearer", "BEARER"} THEN "bearer" ELSE w

\* auth_header.lower().startswith("bearer ")
StartsWithBearer(h) ==
    /\ h.present
    /\ Len(h.value) >= 2
    /\ LowerWord(h.value[1]) = "bearer"

\* Python truth of request.headers.get(name): neither None nor ""
Truthy(h) == h.present /\ h.value # <<>>

\* urlparse(referer): f"{parsed.scheme}://{parsed.netloc}"
RefererOrigin(h) ==
    IF Len(h.value) >= 2 THEN Url(h.value[1], h.value[2]) ELSE Url("", "")

\* validate_origin_for_cookie_auth that falls back to Referer on a mismatch
validate_origin_referer_fallback(request, allowed) ==
    IF request.method \in {"GET", "HEAD", "OPTIONS"} THEN TRUE
    ELSE IF StartsWithBearer(request.Authorization) THEN TRUE
    ELSE \/ Truthy(request.Origin) /\ request.Origin.value \in allowed
         \/ Truthy(request.Referer) /\ RefererOrigin(request.Referer) \in allowed

validate_origin_for_cookie_auth(request, allowed) ==
    IF request.method \in {"GET", "HEAD", "OPTIONS"} THEN TRUE
    ELSE IF StartsWithBearer(request.Authorization) THEN TRUE
    ELSE IF Truthy(request.Origin) THEN request.Origin.value \in allowed
    ELSE IF Truthy(request.Referer)
         THEN RefererOrigin(request.Referer) \in allowed
    ELSE FALSE

\* the middleware: 403 without calling the handler, or call_next(request)
csrf_origin_validation ==
    /\ http_request # NoRequest
    /\ http_response = NoResponse
    /\ http_response' =
          IF ~validate_origin_for_cookie_auth(http_request, allowed_origins)
          THEN [status |-> 403, detail |-> "Invalid request origin",
                call_next |-> FALSE]
          ELSE [status |-> 200, detail |-> "", call_next |-> TRUE]
    /\ UNCHANGED <<http_request, authVars, limiterVars, pomodoroVars, cookieVars>>

\* the next request arrives at the middleware
ReceiveRequest(r) ==
    /\ http_response # NoResponse
    /\ http_request' = r
    /\ http_response' = NoResponse
    /\ UNCHANGED <<authVars, limiterVars, pomodoroVars, cookieVars>>

InitCsrf ==
    /\ Empty /\ slots = 1 /\ NoLimiter /\ NoSessions /\ NoCookies
    /\ http_request \in HttpRequests
    /\ http_response = NoResponse

NextCsrf ==
    \/ csrf_origin_validation
    \/ \E r \in HttpRequests : ReceiveRequest(r)

\* requests passing the CSRF middleware one after the other
SpecCsrf == InitCsrf /\ [][NextCsrf]_vars

(* ------------------ the guard in front of the handlers ----------------- *)
\* POST requests to the auth endpoints: with or without a Bearer header, from
\* an allowed page, from a foreign page, or from no page at all
GuardedRequests ==
    [method : {"POST"},
     Authorization : {Absent, Header(<<"Bearer", "jwt">>)},
     Origin : {Absent, Header(Url("http", "localhost:5173")),
               Header(Url("http", "evil.example"))},
     Referer : {Absent, Header(<<"http", "localhost:3000", "/notes">>)}]

\* call_next(request): the middleware has handed the request to its handler
Passed == http_response.call_next

\* the next request arrives once the handler of the last one has returned
Arrive(r) ==
    /\ \A p \in Procs : ~InFlight(p)
    /\ ReceiveRequest(r)

InitGuarded ==
    /\ Empty /\ slots = 1 /\ NoLimiter /\ NoSessions /\ NoCookies
    /\ http_request \in GuardedRequests
    /\ http_response = NoResponse

\* the handlers of /auth/register, /auth/login, /auth/refresh-token and
\* /auth/logout run on the requests the middleware lets through; t is the
\* refresh_token cookie of the request
NextGuarded ==
    \/ csrf_origin_validation
    \/ \E r \in GuardedRequests : Arrive(r)
    \/ \E p \in Procs, f \in RegisterInputs :
          Passed /\ BeginRegister(p, f.email, f.username, f.password)
    \/ \E p \in Procs : RegisterInsert(p)
    \/ \E p \in Procs, e \in Emails, w \in LoginPasswords :
          Passed /\ Login(p, e, w)
    \/ \E p \in Procs, t \in Plaintexts \cup {NoCookie} :
          Passed /\ BeginRefresh(p, "cookie", t)
    \/ \E p \in Procs : RotateSelect(p)
    \/ \E p \in Procs : RotateGetUser(p)
    \/ \E p \in Procs : RotateCommit(p)
    \/ \E p \in Procs, t \in Plaintexts \cup {NoCookie} :
          Passed /\ BeginLogout(p, "cookie", t)
    \/ \E p \in Procs : RevokeSelect(p)
    \/ \E p \in Procs : RevokeCommit(p)

\* one request at a time, each through the middleware to its handler
SpecGuarded == InitGuarded /\ [][NextGuarded]_vars

(* ---------------------------- rate limiting ---------------------------- *)
\* settings.TRUSTED_PROXY_IPS, split at the commas
TRUSTED_PROXY_IPS == {}

\* the rate limits an endpoint may be configured with, and how its
\* dependency identifies the caller
RateLimitStrings == {"2/minute", "2/hour", "2/day"}
IdentifierTypes == {"ip", "user", "ip_user"}

\* parse_rate_limit: '5/minute' as <<count, seconds>>
parse_rate_limit(rate_string) ==
    CASE rate_string = "2/minute" -> <<2, 60>>
      [] rate_string = "5/minute" -> <<5, 60>>
      [] rate_string = "10/minute" -> <<10, 60>>
      [] rate_string = "2/hour" -> <<2, 3600>>
      [] rate_string = "2/day" -> <<2, 86400>>
      [] OTHER -> <<5, 60>>

\* the requests of the model: client is request.client.host, a forwarding
\* header holds the addresses of its comma-separated list, sub is the sub of
\* the request's access token ("" without a token)
RateRequests ==
    {[client |-> "1.1.1.1", XForwardedFor |-> Absent, XRealIP |-> Absent,
      sub |-> ""],
     [client |-> "1.1.1.1", XForwardedFor |-> Header(<<"9.9.9.9", "1.1.1.1">>),
      XRealIP |-> Absent, sub |-> ""],
     [client |-> "1.1.1.1", XForwardedFor |-> Absent,
      XRealIP |-> Header(<<"8.8.8.8">>), sub |-> "u1"],
     [client |-> "2.2.2.2", XForwardedFor |-> Absent, XRealIP |-> Absent,
      sub |-> "u1"]}

ClockDeltas == {1, 60, 3600}

\* app.core.client_ip.get_client_ip
get_client_ip(request) ==
    LET direct_client == request.client IN
    IF direct_client = "" THEN "unknown"
    ELSE IF direct_client \notin TRUSTED_PROXY_IPS THEN direct_client
    ELSE IF Truthy(request.XForwardedFor) THEN request.XForwardedFor.value[1]
    ELSE IF Truthy(request.XRealIP) THEN request.XRealIP.value[1]
    ELSE direct_client

\* app.core.rate_limiting.get_client_ip, the one get_rate_limit_key calls
rate_limiting_get_client_ip(request) ==
    IF Truthy(request.XForwardedFor) THEN request.XForwardedFor.value[1]
    ELSE IF Truthy(request.XRealIP) THEN request.XRealIP.value[1]
    ELSE IF request.client # "" THEN request.client ELSE "unknown"

\* get_rate_limit_key whose fallback key keeps the identifier type
get_rate_limit_key_typed_fallback(request, identifier_type, user_id) ==
    LET client_ip == rate_limiting_get_client_ip(request) IN
    IF identifier_type = "ip" THEN <<"ip", client_ip>>
    ELSE IF identifier_type = "user" /\ user_id # "" THEN <<"user", user_id>>
    ELSE IF identifier_type = "ip_user" /\ user_id # ""
         THEN <<"ip_user", client_ip, user_id>>
    ELSE <<identifier_type, client_ip>>

\* get_rate_limit_key: "ip:<ip>" as <<"ip", ip>>
get_rate_limit_key(request, identifier_type, user_id) ==
    LET client_ip == rate_limiting_get_client_ip(request) IN
    IF identifier_type = "ip" THEN <<"ip", client_ip>>
    ELSE IF identifier_type = "user" /\ user_id # "" THEN <<"user", user_id>>
    ELSE IF identifier_type = "ip_user" /\ user_id # ""
         THEN <<"ip_user", client_ip, user_id>>
    ELSE <<"ip", client_ip>>

\* while window and window[0] < cutoff: window.popleft()
RECURSIVE PopOlder(_, _)
PopOlder(window, cutoff) ==
    IF window # <<>> /\ Head(window) < cutoff
    THEN PopOlder(Tail(window), cutoff)
    ELSE window

\* _cleanup_old_entries: the windows and _last_cleanup it leaves
CleanedWindows(t) ==
    IF t - _last_cleanup < 300 THEN _windows
    ELSE LET popped == [k \in DOMAIN _windows |-> PopOlder(_windows[k], t - 3600)]
             kept == {k \in DOMAIN popped : popped[k] # <<>>}
         IN  [k \in kept |-> popped[k]]

CleanedAt(t) == IF t - _last_cleanup < 300 THEN _last_cleanup ELSE t

\* is_allowed: <<is_allowed, rate_limit_info, the windows it leaves>>
is_allowed(key, limit, window_seconds) ==
    LET t == clock
        window_start == t - window_seconds
        cleaned == CleanedWindows(t)
        found == IF key \in DOMAIN cleaned THEN cleaned[key] ELSE <<>>
        window == PopOlder(found, window_start)
        current_count == Len(window)
        allowed == current_count < limit
        left == IF allowed THEN Append(window, t) ELSE window
        remaining == limit - current_count - (IF allowed THEN 1 ELSE 0)
    IN  [is_allowed |-> allowed,
         limit |-> limit,
         remaining |-> IF remaining > 0 THEN remaining ELSE 0,
         reset |-> t + window_seconds,
         retry_after |-> IF allowed THEN 0 ELSE window_seconds,
         windows |-> [k \in DOMAIN cleaned \cup {key} |->
                         IF k = key THEN left ELSE cleaned[k]]]

\* rate_limit_dependency: check_rate_limit, then 429 or the handler
rate_limit_dependency(request) ==
    LET parsed == parse_rate_limit(settings.rate_limit_string)
        user_id == IF settings.identifier_type \in {"user", "ip_user"}
                   THEN request.sub ELSE ""
        key == get_rate_limit_key(request, settings.identifier_type, user_id)
        res == is_allowed(key, parsed[1], parsed[2])
    IN  /\ Len(rl_log) < MaxRateRequests
        /\ _windows' = res.windows
        /\ _last_cleanup' = CleanedAt(clock)
        /\ rate_limit' =
              [request |-> request, key |-> key, is_allowed |-> res.is_allowed,
               status |-> IF res.is_allowed THEN 200 ELSE 429,
               limit |-> res.limit, remaining |-> res.remaining,
               reset |-> res.reset, retry_after |-> res.retry_after]
        /\ rl_log' = Append(rl_log,
              [key |-> key, at |-> clock, is_allowed |-> res.is_allowed,
               limit |-> res.limit])
        /\ UNCHANGED <<settings, clock, advances, authVars, csrfVars,
                       pomodoroVars, cookieVars>>

\* time.time() advances
Advance(d) ==
    /\ advances < MaxAdvances
    /\ clock' = clock + d
    /\ advances' = advances + 1
    /\ UNCHANGED <<settings, _windows, _last_cleanup, rate_limit, rl_log,
                   authVars, csrfVars, pomodoroVars, cookieVars>>

InitLimiter ==
    /\ Empty /\ slots = 1 /\ NoHttp /\ NoSessions /\ NoCookies
    /\ NewLimiter
    /\ settings \in [rate_limit_string : RateLimitStrings,
                     identifier_type : IdentifierTypes]

NextLimiter ==
    \/ \E r \in RateRequests : rate_limit_dependency(r)
    \/ \E d \in ClockDeltas : Advance(d)

\* requests at one rate-limited endpoint while time passes
SpecLimiter == InitLimiter /\ [][NextLimiter]_vars

\* login_rate_limit, register_rate_limit and refresh_rate_limit, with the
\* limits of the settings
RateLimitedEndpoints ==
    {[rate_limit_string |-> "5/minute", identifier_type |-> "ip"],
     [rate_limit_string |-> "2/minute", identifier_type |-> "ip"],
     [rate_limit_string |-> "10/minute", identifier_type |-> "user"]}

\* the next request goes to another endpoint: its dependency is the closure
\* over that endpoint's rate_limit_string and identifier_type
Route(endpoint) ==
    /\ settings # endpoint
    /\ Len(rl_log) < MaxRateRequests
    /\ settings' = endpoint
    /\ UNCHANGED <<_windows, _last_cleanup, clock, rate_limit, rl_log, advances,
                   authVars, csrfVars, pomodoroVars, cookieVars>>

InitEndpoints ==
    /\ Empty /\ slots = 1 /\ NoHttp /\ NoSessions /\ NoCookies
    /\ NewLimiter
    /\ settings \in RateLimitedEndpoints

\* minute windows: a second and a minute between requests
NextEndpoints ==
    \/ \E e \in RateLimitedEndpoints : Route(e)
    \/ \E r \in {q \in RateRequests : ~q.XRealIP.present} :
          rate_limit_dependency(r)
    \/ \E d \in {1, 60} : Advance(d)

\* requests at the login, register and refresh endpoints, which share the
\* one rate_limiter of the module
SpecEndpoints == InitEndpoints /\ [][NextEndpoints]_vars

(* -------------------------- pomodoro sessions -------------------------- *)
SessionIds == 1..Len(sessions)

\* what session_in.learning_project_id names: no project, the user's own
\* learning project, or a project that is not the user's
Projects == {"none", "own", "foreign"}

\* validate_project_ownership(..., allow_archived=False): whether the project
\* is found for the user and not archived
validate_project_ownership(project, user_id) ==
    project = "own" /\ projects[user_id] # "archived"

\* get_session: the session of that id and user, unless its learning project
\* is archived; 0 for None
get_session(session_id, user_id) ==
    IF sessions[session_id].user_id # user_id THEN 0
    ELSE IF /\ sessions[session_id].learning_project_id # "none"
            /\ projects[user_id] = "archived" THEN 0
    ELSE session_id

\* select(Session).where(user_id, status == "in_progress")
\*     .order_by(start_time.desc()).limit(1): the session's id, 0 for None
InProgressOf(user_id) ==
    LET found == {i \in SessionIds : /\ sessions[i].user_id = user_id
                                     /\ sessions[i].status = "in_progress"}
    IN  IF found = {} THEN 0 ELSE CHOOSE i \in found : \A j \in found : j <= i

StartInFlight(p) == start[p].pc \notin {"idle", "done"}

\* create_session: the select of the in-progress session, and the check of
\* the learning project
BeginCreateSession(p, user_id, project) ==
    LET existing_session == InProgressOf(user_id)
        call == [NoStart EXCEPT !.user_id = user_id, !.project = project] IN
    /\ ~StartInFlight(p)
    /\ Len(sessions) + Cardinality({q \in Procs : StartInFlight(q)}) < MaxSessions
    /\ start' = [start EXCEPT ![p] =
          IF existing_session # 0
          THEN [call EXCEPT !.pc = "done", !.path = "existing",
                            !.result = existing_session]
          ELSE IF project # "none" /\ ~validate_project_ownership(project, user_id)
          THEN [call EXCEPT !.pc = "done", !.path = "denied"]
          ELSE [call EXCEPT !.pc = "commit"]]
    /\ UNCHANGED <<sessions, authVars, csrfVars, limiterVars, cookieVars,
                 prefsVars, projects>>

\* CreateSessionCommit without the index uq_sessions_user_in_progress
CreateSessionCommitNoIndex(p) ==
    /\ start[p].pc = "commit"
    /\ sessions' = Append(sessions,
          [user_id |-> start[p].user_id, status |-> "in_progress",
           learning_project_id |-> start[p].project])
    /\ start' = [start EXCEPT ![p].pc = "done", ![p].path = "created",
                              ![p].result = Len(sessions) + 1]
    /\ UNCHANGED <<authVars, csrfVars, limiterVars, cookieVars, prefsVars,
                 projects>>

\* create_session: db.add(session); await db.commit() under the unique
\* partial index on user_id where status = 'in_progress'
CreateSessionCommit(p) ==
    /\ start[p].pc = "commit"
    /\ IF InProgressOf(start[p].user_id) # 0
       THEN \* IntegrityError: await db.rollback()
            /\ start' = [start EXCEPT ![p].pc = "conflict"]
            /\ UNCHANGED sessions
       ELSE /\ sessions' = Append(sessions,
                  [user_id |-> start[p].user_id, status |-> "in_progress",
                   learning_project_id |-> start[p].project])
            /\ start' = [start EXCEPT ![p].pc = "done", ![p].path = "created",
                                      ![p].result = Len(sessions) + 1]
    /\ UNCHANGED <<authVars, csrfVars, limiterVars, cookieVars, prefsVars,
                 projects>>

\* create_session after the IntegrityError: the second select; the
\* conflicting session or the exception re-raised
CreateSessionConflict(p) ==
    LET conflict_session == InProgressOf(start[p].user_id) IN
    /\ start[p].pc = "conflict"
    /\ start' = [start EXCEPT ![p].pc = "done",
          ![p].path = IF conflict_session # 0 THEN "conflict" ELSE "raised",
          ![p].result = conflict_session]
    /\ UNCHANGED <<sessions, authVars, csrfVars, limiterVars, cookieVars,
                 prefsVars, projects>>

\* complete_session / abandon_session: get_session, then the new status and
\* db.commit(); a call that gets None (the endpoint's 404) changes nothing
EndSession(session_id, user_id, status) ==
    /\ get_session(session_id, user_id) # 0
    /\ sessions' = [sessions EXCEPT ![session_id].status = status]
    /\ sessions' # sessions
    /\ UNCHANGED <<start, authVars, csrfVars, limiterVars, cookieVars,
                 prefsVars, projects>>

\* delete_learning_project: the soft delete, status = "archived"; an
\* archived project is returned as it is
delete_learning_project(user_id) ==
    /\ projects[user_id] # "archived"
    /\ projects' = [projects EXCEPT ![user_id] = "archived"]
    /\ UNCHANGED <<sessions, start, prefsVars, authVars, csrfVars, limiterVars,
                   cookieVars>>

InitSessions ==
    /\ Empty /\ slots = 2 /\ NoHttp /\ NoLimiter /\ NoCookies
    /\ NoSessions

NextSessions ==
    \/ \E p \in Procs, u \in SessionUsers, j \in Projects :
          BeginCreateSession(p, u, j)
    \/ \E p \in Procs : CreateSessionCommit(p)
    \/ \E p \in Procs : CreateSessionConflict(p)
    \/ \E i \in SessionIds, u \in SessionUsers,
          st \in {"completed", "abandoned"} :
          EndSession(i, u, st)
    \/ \E u \in SessionUsers : delete_learning_project(u)

\* two clients starting, completing and abandoning sessions
SpecSessions == InitSessions /\ [][NextSessions]_vars

(* ------------------------- pomodoro preferences ------------------------ *)
PrefValues == 1..MaxPrefValue
PreferenceDicts == [PreferenceFields -> {Unset} \cup {Field(v) : v \in PrefValues}]

\* PomodoroPreferences(**d): the fields of d, the defaults for the others
PomodoroPreferences(d) ==
    [f \in PreferenceFields |->
        IF d[f].set THEN d[f]
        ELSE Field(CASE f = "work_duration" -> 25
                     [] f = "break_duration" -> 5
                     [] f = "long_break_duration" -> 15
                     [] f = "long_break_interval" -> 4)]

\* update_user_preferences: current_preferences = dict(user.preferences);
\* current_preferences["pomodoro"] = preferences; db.commit()
update_user_preferences(preferences_dict) ==
    [preferences EXCEPT !.pomodoro = preferences_dict]

\* PUT /pomodoro/preferences by the current user, whose row exists:
\* preferences.model_dump(exclude_unset=True) is the dict of the fields the
\* request set
update_pomodoro_preferences(preferences_dict) ==
    /\ preferences' = update_user_preferences(preferences_dict)
    /\ prefs_update' =
          [status |-> 200, request |-> preferences_dict,
           response |-> PomodoroPreferences(preferences'.pomodoro)]
    /\ UNCHANGED <<sessions, start, projects, authVars, csrfVars, limiterVars,
                 cookieVars>>

\* a user row whose preferences hold a pomodoro section and possibly another
InitPrefs ==
    /\ Empty /\ slots = 1 /\ NoHttp /\ NoLimiter /\ NoCookies
    /\ sessions = <<>>
    /\ start = [p \in Procs |-> NoStart]
    /\ projects = NoArchive
    /\ preferences \in [pomodoro : {EmptyDict}, theme : {"", "dark"}]
    /\ prefs_update = NoUpdate

NextPrefs == \E d \in PreferenceDicts : update_pomodoro_preferences(d)

SpecPrefs == InitPrefs /\ [][NextPrefs]_vars

(* ------------------------------- cookies ------------------------------- *)
ACCESS_TOKEN_COOKIE_NAME == "access_token"
REFRESH_TOKEN_COOKIE_NAME == "refresh_token"

\* the paths of the requests a browser sends
RequestPaths == {"/", "/api/v1/auth/refresh-token", "/api/v1/auth/logout",
                 "/api/v1/notes"}

\* RFC 6265 path-match of a cookie path against a request path
PathMatches(cookie_path, request_path) ==
    \/ cookie_path = "/"
    \/ cookie_path = request_path
    \/ /\ cookie_path = "/api/v1/auth"
       /\ request_path \in {"/api/v1/auth/refresh-token", "/api/v1/auth/logout"}

\* response.set_cookie(key, value, max_age, path)
set_cookie(key, value, max_age, path) ==
    [name |-> key, value |-> value, max_age |-> max_age, path |-> path]

\* response.delete_cookie(key, path): the cookie with max-age 0
delete_cookie(key, path) == set_cookie(key, 0, 0, path)

\* set_auth_cookies: the Set-Cookie headers of the response
set_auth_cookies(access_token, refresh_token) ==
    {set_cookie(ACCESS_TOKEN_COOKIE_NAME, access_token,
                ACCESS_TOKEN_EXPIRE_MINUTES * 60, "/"),
     set_cookie(REFRESH_TOKEN_COOKIE_NAME, refresh_token,
                REFRESH_TOKEN_EXPIRE_DAYS * 24 * 60 * 60, "/api/v1/auth")}

\* clear_auth_cookies that deletes the refresh cookie at the root path
clear_auth_cookies_root_path ==
    {delete_cookie(ACCESS_TOKEN_COOKIE_NAME, "/"),
     delete_cookie(REFRESH_TOKEN_COOKIE_NAME, "/")}

\* clear_auth_cookies: the Set-Cookie headers of the response
clear_auth_cookies ==
    {delete_cookie(ACCESS_TOKEN_COOKIE_NAME, "/"),
     delete_cookie(REFRESH_TOKEN_COOKIE_NAME, "/api/v1/auth")}

\* the browser stores the cookies of a response: one replaces the cookie of
\* its name and path, one with max-age 0 removes it
Stored(held, set_cookies) ==
    {c \in held : ~\E n \in set_cookies : n.name = c.name /\ n.path = c.path}
        \cup {[name |-> n.name, path |-> n.path, value |-> n.value] :
                 n \in {m \in set_cookies : m.max_age > 0}}

\* the last two responses applied
Applied(kind) == <<client.applied[2], kind>>

\* the browser applies a response of register, login or refresh
ApplySetAuthCookies(access_token, refresh_token) ==
    /\ jar' = Stored(jar, set_auth_cookies(access_token, refresh_token))
    /\ client' = [client EXCEPT !.applied = Applied("set")]
    /\ UNCHANGED <<authVars, csrfVars, limiterVars, pomodoroVars>>

\* the browser applies a response of logout
ApplyClearAuthCookies ==
    /\ jar' = Stored(jar, clear_auth_cookies)
    /\ client' = [client EXCEPT !.applied = Applied("clear")]
    /\ UNCHANGED <<authVars, csrfVars, limiterVars, pomodoroVars>>

\* the browser sends a request with the cookies whose path matches
SendRequest(path) ==
    /\ client' = [client EXCEPT !.path = path,
                     !.cookies = {c \in jar : PathMatches(c.path, path)}]
    /\ UNCHANGED <<jar, authVars, csrfVars, limiterVars, pomodoroVars>>

InitCookies ==
    /\ Empty /\ slots = 1 /\ NoHttp /\ NoLimiter /\ NoSessions
    /\ NoCookies

NextCookies ==
    \/ \E a, r \in 1..MaxCookieValues : ApplySetAuthCookies(a, r)
    \/ ApplyClearAuthCookies
    \/ \E path \in RequestPaths : SendRequest(path)

\* a browser applying auth responses and sending requests
SpecCookies == InitCookies /\ [][NextCookies]_vars

(* ======================================================================= *)
(*                              Properties                                 *)
(* ======================================================================= *)
RowOf(token) == RowByHash(hash_refresh_token(token))
SuccessorsOf(r) == {s \in successor : s[1] = r}

\* p and q have both answered a refresh of the same plaintext, and each was
\* called while the token was valid: the two calls overlapped
TwinRotations(p, q) ==
    /\ p # q
    /\ req[p].pc = "done" /\ req[p].op = "refresh" /\ req[p].valid0
    /\ req[q].pc = "done" /\ req[q].op = "refresh" /\ req[q].valid0
    /\ req[p].tok = req[q].tok
    /\ tokens[RowOf(req[p].tok)].expires_at > now
    /\ users[tokens[RowOf(req[p].tok)].user_id].is_active

\* C1: of two concurrent rotations of the same valid refresh token exactly
\* one returns a new token and user, the other gets the invalid-token
\* outcome, and exactly one successor row is inserted.
C1_ConcurrentRotationOneWinner ==
    \A p, q \in Procs :
        TwinRotations(p, q) =>
            /\ \/ resp[p].status = 200 /\ resp[q] = InvalidRefresh
               \/ resp[q].status = 200 /\ resp[p] = InvalidRefresh
            /\ Cardinality(SuccessorsOf(RowOf(req[p].tok))) = 1

C1_Witness ==
    \E p, q \in Procs :
        /\ TwinRotations(p, q)
        /\ resp[p].status = 200 /\ resp[p].refresh \in RowIds
        /\ resp[q].status = 401

\* C2: refresh tokens are single-use: a rotation called after a rotation of
\* the same plaintext has succeeded is refused with the invalid-token 401,
\* whatever happened in between.
C2_SingleUse ==
    \A p \in Procs :
        (req[p].pc = "done" /\ req[p].op = "refresh" /\ req[p].spent0)
            => resp[p] = InvalidRefresh

C2_Witness ==
    \E p \in Procs :
        /\ req[p].pc = "done" /\ req[p].op = "refresh" /\ req[p].spent0
        /\ req[p].cause = "revoked"
        /\ tokens[RowOf(req[p].tok)].expires_at > now
        /\ users[tokens[RowOf(req[p].tok)].user_id].is_active

\* a step in which p's rotation commits
RotationCommits(p) ==
    /\ req[p].pc = "rot_commit"
    /\ req'[p].pc = "done"
    /\ resp'[p].status = 200

\* C3: rotation is atomic: no committed state shows a successor row next to
\* an unrevoked consumed row, and the commit that revokes the consumed row
\* is the commit that inserts its successor.
C3_RotationAtomic ==
    /\ [](\A s \in successor :
             /\ s[1] \in RowIds /\ s[2] \in RowIds
             /\ tokens[s[1]].is_revoked)
    /\ [][\A p \in Procs :
             RotationCommits(p) =>
                 /\ ~tokens[req[p].row].is_revoked
                 /\ tokens'[req[p].row].is_revoked
                 /\ Len(tokens') = Len(tokens) + 1
                 /\ successor' = successor \cup {<<req[p].row, Len(tokens')>>}]_vars
    /\ [][\A r \in RowIds :
             (SuccessorsOf(r) = {} /\ (SuccessorsOf(r))' # {})
                 => \E p \in Procs : RotationCommits(p) /\ req[p].row = r]_vars

C3_Witness ==
    \E s \in successor, p \in Procs :
        /\ tokens[s[1]].is_revoked
        /\ ~tokens[s[2]].is_revoked
        /\ InFlight(p)

\* the plaintext create_refresh_token handed out for row r
PlaintextOf(r) == r

\* a step in which revoke_all_user_refresh_tokens commits and returns
RevokeAllReturns(p) ==
    /\ req[p].pc = "ra_commit"
    /\ req'[p].pc = "done"

\* C4: when revoke_all_user_refresh_tokens(u) returns, no refresh-token row
\* of u is unrevoked, also when a rotation or a login of u runs concurrently.
C4_RevokeAllLogsOutEverywhere ==
    [][\A p \in Procs :
          RevokeAllReturns(p) =>
              \A r \in 1..Len(tokens') :
                  tokens'[r].user_id = req[p].uid => tokens'[r].is_revoked]_vars

\* C5: when revoke_all_user_refresh_tokens(u) returns, verify and rotate
\* fail for every plaintext of u that was unrevoked when it started, the
\* returned count is the number of rows it flipped from unrevoked to
\* revoked, and no row of another user has changed.
C5_RevokeAllCountAndEffect ==
    [][\A p \in Procs :
          RevokeAllReturns(p) =>
              /\ \A r \in req[p].sel :
                    /\ (verify_refresh_token(PlaintextOf(r)))' = NoRow
                    /\ (RotateWouldFail(PlaintextOf(r)))'
              /\ resp'[p].count =
                    Cardinality({r \in RowIds :
                        /\ tokens[r].user_id = req[p].uid
                        /\ ~tokens[r].is_revoked
                        /\ tokens'[r].is_revoked})
              /\ \A r \in RowIds :
                    tokens[r].user_id # req[p].uid => tokens'[r] = tokens[r]]_vars

\* a step in which p's logout returns from revoke_refresh_token
LogoutReturns(p) ==
    /\ req[p].op = "logout"
    /\ InFlight(p)
    /\ req'[p].pc = "done"

\* C6: once a logout carrying refresh token t has returned, t's row is
\* revoked and a refresh with t is refused; the logout changes no other row.
C6_LogoutRevokesOnlyItsToken ==
    /\ [](\A p \in Procs :
             (req[p].pc = "done" /\ req[p].op = "logout" /\ req[p].tok # NoCookie)
                 => /\ RotateWouldFail(req[p].tok)
                    /\ RowOf(req[p].tok) # NoRow
                          => tokens[RowOf(req[p].tok)].is_revoked)
    /\ [][\A p \in Procs :
             LogoutReturns(p) =>
                 /\ Len(tokens') = Len(tokens)
                 /\ \A r \in RowIds \ {RowOf(req[p].tok)} :
                       tokens'[r] = tokens[r]]_vars

C6_Witness ==
    \E p \in Procs, r \in RowIds :
        /\ req[p].pc = "done" /\ req[p].op = "logout"
        /\ RowOf(req[p].tok) \in RowIds \ {r}
        /\ ~req[p].rev
        /\ tokens[RowOf(req[p].tok)].is_revoked
        /\ ~tokens[r].is_revoked

\* a step in which p's login answers 200
LoginSucceeds(p) ==
    /\ req'[p].op = "login"
    /\ resp'[p].status = 200
    /\ resp'[p] # resp[p]

\* C7: a successful login inserts exactly one new, unrevoked row for the
\* authenticated user and changes no existing row; a rotation changes no row
\* but the one it consumes, so the other tokens of the user stay valid.
C7_LoginAddsOneRow ==
    /\ [][\A p \in Procs :
             LoginSucceeds(p) =>
                 /\ Len(tokens') = Len(tokens) + 1
                 /\ \A r \in RowIds : tokens'[r] = tokens[r]
                 /\ resp'[p].refresh = Len(tokens')
                 /\ tokens'[Len(tokens')].user_id = resp'[p].sub
                 /\ ~tokens'[Len(tokens')].is_revoked
                 /\ resp'[p].sub \in UserIds
                 /\ Lower(users[resp'[p].sub].email) = req'[p].email
                 /\ verify_password(req'[p].password,
                                    users[resp'[p].sub].password_hash)]_vars
    /\ [][\A p \in Procs :
             RotationCommits(p) =>
                 \A r \in RowIds \ {req[p].row} : tokens'[r] = tokens[r]]_vars

\* a user's register token r1 was rotated, the login token r2 is still valid
C7_Witness ==
    \E r1, r2 \in RowIds :
        /\ r1 # r2
        /\ tokens[r1].user_id = tokens[r2].user_id
        /\ \A s \in successor : s[2] \notin {r1, r2}
        /\ SuccessorsOf(r1) # {}
        /\ ~RotateWouldFail(PlaintextOf(r2))

\* a step in which revoke_refresh_token returns True
RevokeReturns(p) ==
    /\ req[p].pc = "rev_commit"
    /\ req'[p].pc = "done"

\* a step in which revoke_refresh_token returns False
RevokeFindsNothing(p) ==
    /\ req[p].pc = "rev_select"
    /\ req'[p].pc = "done"

\* C8 as stated: the first revoke of an unrevoked token marks the row and
\* returns true; a second revoke of the same plaintext leaves the store alone
\* and returns false.
C8_RevokeTwiceReturnsFalse ==
    [][\A p \in Procs :
          RevokeReturns(p) =>
              IF ~tokens[req[p].row].is_revoked
              THEN tokens'[req[p].row].is_revoked /\ resp'[p].ret = TRUE
              ELSE tokens' = tokens /\ resp'[p].ret = FALSE]_vars

\* C8 as amended: the second revoke leaves the store alone and returns true
\* again; false is returned only when no row matches the plaintext.
C8_RevokeIdempotentOnStore ==
    [][\A p \in Procs :
          /\ RevokeReturns(p) =>
                /\ resp'[p].ret = TRUE
                /\ IF ~tokens[req[p].row].is_revoked
                   THEN tokens' = [tokens EXCEPT ![req[p].row].is_revoked = TRUE]
                   ELSE tokens' = tokens
          /\ RevokeFindsNothing(p) =>
                /\ RowOf(req[p].tok) = NoRow
                /\ resp'[p].ret = FALSE
                /\ tokens' = tokens]_vars

\* a revoke of an already revoked row has returned
C8_Witness ==
    \E p \in Procs :
        /\ req[p].pc = "done" /\ req[p].op = "logout"
        /\ RowOf(req[p].tok) # NoRow
        /\ req[p].rev
        /\ resp[p].ret = TRUE

\* C9: a failed refresh answers with one and the same 401, whether the token
\* was never issued, is expired, is revoked or belongs to an inactive user.
C9_RefreshFailureUniform ==
    \A p \in Procs :
        (req[p].pc = "done" /\ req[p].op = "refresh" /\ req[p].cause # "none")
            => /\ req[p].cause \in {"missing", "expired", "revoked", "inactive"}
               /\ resp[p] = Unauthorized("Invalid or expired refresh token")

C9_Witness ==
    \E p \in Procs :
        /\ req[p].pc = "done" /\ req[p].op = "refresh"
        /\ req[p].cause = "expired"
        /\ req[p].tok \in RowIds
        /\ ~tokens[RowOf(req[p].tok)].is_revoked

\* C10: access tokens are not revocable: get_current_user accepts an issued
\* access token in every state before its expiry, whatever has been revoked,
\* and rejects it in every state after its expiry.
C10_AccessTokenUntilExpiry ==
    \A a \in access_tokens :
        /\ now < a.exp => get_current_user(a) = a.sub
        /\ now > a.exp => get_current_user(a) = NoRow

\* /me answered 200 for a user all of whose refresh tokens are revoked, while
\* an older access token has expired
C10_Witness ==
    \E p \in Procs :
        /\ req[p].pc = "done" /\ req[p].op = "me" /\ resp[p].status = 200
        /\ \E r \in RowIds : tokens[r].user_id = resp[p].sub
        /\ \A r \in RowIds : tokens[r].user_id = resp[p].sub => tokens[r].is_revoked
        /\ \E b \in access_tokens : b.exp < now /\ get_current_user(b) = NoRow

\* the middleware has answered the request
CsrfDecided == http_request # NoRequest /\ http_response # NoResponse
CsrfPassed == http_response.call_next /\ http_response.status # 403
CsrfRejected == ~http_response.call_next /\ http_response.status = 403

\* C11 as stated: safe methods pass, Bearer requests pass, any other request
\* passes iff its Origin, or only when Origin is absent the origin of its
\* Referer, is an allowed origin; otherwise 403 and the handler does not run.
C11_CsrfOriginDecision ==
    CsrfDecided =>
        LET r == http_request
            ok == \/ r.method \in {"GET", "HEAD", "OPTIONS"}
                  \/ StartsWithBearer(r.Authorization)
                  \/ r.Origin.present /\ r.Origin.value \in allowed_origins
                  \/ /\ ~r.Origin.present
                     /\ r.Referer.present
                     /\ RefererOrigin(r.Referer) \in allowed_origins
        IN  IF ok THEN CsrfPassed ELSE CsrfRejected

\* C11 as amended: the Referer is consulted when Origin is absent or empty.
C11_CsrfOriginDecisionEmptyOrigin ==
    CsrfDecided =>
        LET r == http_request
            noOrigin == ~r.Origin.present \/ r.Origin.value = <<>>
            ok == \/ r.method \in {"GET", "HEAD", "OPTIONS"}
                  \/ StartsWithBearer(r.Authorization)
                  \/ ~noOrigin /\ r.Origin.value \in allowed_origins
                  \/ /\ noOrigin
                     /\ r.Referer.present
                     /\ RefererOrigin(r.Referer) \in allowed_origins
        IN  IF ok THEN CsrfPassed ELSE CsrfRejected

\* a cookie-authenticated POST with a foreign Origin and an allowed Referer
\* was answered 403
C11_Witness ==
    /\ CsrfDecided
    /\ http_request.method = "POST"
    /\ ~StartsWithBearer(http_request.Authorization)
    /\ http_request.Origin = Header(Url("http", "evil.example"))
    /\ RefererOrigin(http_request.Referer) \in allowed_origins
    /\ CsrfRejected

\* the limit and window of the endpoint
RateLimit == parse_rate_limit(settings.rate_limit_string)[1]
RateWindow == parse_rate_limit(settings.rate_limit_string)[2]

\* how many of the first n decisions admitted a request for key k at or
\* after time t
AdmittedSince(k, t, n) ==
    Cardinality({j \in 1..n : /\ rl_log[j].key = k
                              /\ rl_log[j].is_allowed
                              /\ rl_log[j].at >= t})

\* C12: the IP in an IP-keyed rate-limit key is the socket peer address
\* unless the peer is a trusted proxy, whatever forwarding headers are sent.
C12_RateLimitKeyNotSpoofable ==
    (/\ rate_limit.status # 0
     /\ rate_limit.key[1] \in {"ip", "ip_user"}
     /\ rate_limit.request.client \notin TRUSTED_PROXY_IPS)
        => rate_limit.key[2] = rate_limit.request.client

\* a step of is_allowed
LimiterDecides == rl_log' # rl_log

\* C13: is_allowed admits iff fewer than limit of the key's timestamps are
\* left after evicting those older than now - window_seconds, an admitted
\* request appends its timestamp and a rejected one appends nothing, and at
\* most limit requests of a key are admitted within any trailing window.
C13_SlidingWindowAdmission ==
    /\ [][LimiterDecides =>
            LET k == rate_limit'.key
                stored == IF k \in DOMAIN _windows THEN _windows[k] ELSE <<>>
                evicted == PopOlder(stored, clock - RateWindow)
            IN  /\ rate_limit'.is_allowed <=> Len(evicted) < RateLimit
                /\ _windows'[k] = IF rate_limit'.is_allowed
                                  THEN Append(evicted, clock) ELSE evicted]_vars
    /\ [](\A i \in 1..Len(rl_log) :
             AdmittedSince(rl_log[i].key, rl_log[i].at - RateWindow, i)
                 <= RateLimit)

\* C14: when limit requests of a key were admitted within the current
\* window, the next request of the key is answered 429 with retry_after > 0
\* and remaining = 0.
C14_OverLimitAnswers429 ==
    (/\ Len(rl_log) > 0
     /\ AdmittedSince(rate_limit.key, rl_log[Len(rl_log)].at - RateWindow,
                      Len(rl_log) - 1) >= RateLimit)
        => /\ rate_limit.status = 429
           /\ ~rate_limit.is_allowed
           /\ rate_limit.retry_after > 0
           /\ rate_limit.remaining = 0

\* a step in which p's login is refused
LoginFails(p) ==
    /\ req'[p] # req[p]
    /\ req'[p].op = "login"
    /\ req'[p].cause \in {"no_user", "bad_password"}

\* C15: a login for an unknown email and one with a wrong password get the
\* same 401 (status, detail, headers); neither issues a token or changes a row.
C15_LoginFailureUniform ==
    /\ [](\A p \in Procs :
             (/\ req[p].pc = "done" /\ req[p].op = "login"
              /\ req[p].cause \in {"no_user", "bad_password"})
                 => resp[p] = Unauthorized("Incorrect email or password"))
    /\ [][\A p \in Procs :
             LoginFails(p) =>
                 /\ UNCHANGED <<users, tokens, access_tokens>>
                 /\ resp'[p].refresh = NoCookie
                 /\ resp'[p].access = {}]_vars

\* a login for an email that no user has was refused while users exist
C15_Witness ==
    \E p \in Procs :
        /\ req[p].pc = "done" /\ req[p].op = "login"
        /\ req[p].cause = "no_user"
        /\ resp[p].status = 401
        /\ users # <<>>

\* a step in which p's register answers
RegisterAnswers(p) ==
    /\ req'[p] # req[p]
    /\ req'[p].op = "register"
    /\ req'[p].pc = "done"

\* the e-mail address or the username of the request is taken
Taken(email, username) ==
    \E u \in UserIds : \/ Lower(users[u].email) = Lower(email)
                       \/ users[u].username = username

\* C16: register with a free e-mail address and username creates one user
\* and one refresh-token row, sets both cookies and answers 201; with a taken
\* e-mail address or username it answers 400 with one message and creates
\* nothing.
C16_RegisterAnswers201 ==
    [][\A p \in Procs :
          RegisterAnswers(p) =>
              IF req[p].pc = "reg_insert" /\ ~Taken(req[p].email, req[p].username)
              THEN /\ Len(users') = Len(users) + 1
                   /\ Len(tokens') = Len(tokens) + 1
                   /\ tokens'[Len(tokens')].user_id = Len(users')
                   /\ resp'[p].refresh = Len(tokens')
                   /\ resp'[p].access # {}
                   /\ resp'[p].status = 201
              ELSE /\ UNCHANGED <<users, tokens, access_tokens>>
                   /\ resp'[p] = Response(400,
                         "Registration failed. Please use a different email or username.")]_vars

\* C17: no two users have the same lower-cased e-mail address or the same
\* username, also when two registrations pass the existence checks before
\* either commits.
C17_UsersUnique ==
    \A u, v \in UserIds :
        u # v => /\ Lower(users[u].email) # Lower(users[v].email)
                 /\ users[u].username # users[v].username

\* two registrations overlapped: one committed, the unique indexes refused
\* the other
C17_Witness ==
    \E p, q \in Procs :
        /\ p # q
        /\ req[p].pc = "done" /\ req[p].op = "register" /\ resp[p].status = 200
        /\ req[q].pc = "done" /\ req[q].op = "register" /\ resp[q].status = 500
        /\ Len(users) = 1

\* a step in which create_session returns to p
CreateSessionReturns(p) == start[p].pc # "done" /\ start'[p].pc = "done"

\* C18: each user has at most one session in progress, also when two start
\* requests of the user overlap; create_session called while the user has a
\* session in progress returns that session and creates no row.
C18_SingleActiveSession ==
    /\ [](\A u \in SessionUsers :
             Cardinality({i \in SessionIds : /\ sessions[i].user_id = u
                                             /\ sessions[i].status = "in_progress"})
                 <= 1)
    /\ [][\A p \in Procs :
             (CreateSessionReturns(p) /\ InProgressOf(start'[p].user_id) # 0
                 /\ start[p].pc # "commit")
                 => /\ start'[p].result = InProgressOf(start'[p].user_id)
                    /\ sessions' = sessions]_vars

\* two overlapping start requests of one user: one created the session, the
\* other ran into the unique index and returned the same session
C18_Witness ==
    \E p, q \in Procs :
        /\ start[p].pc = "done" /\ start[p].path = "created"
        /\ start[q].pc = "done" /\ start[q].path = "conflict"
        /\ start[p].user_id = start[q].user_id
        /\ start[p].result = start[q].result
        /\ sessions[start[p].result].status = "in_progress"

\* C19: a valid access token of an inactive user is refused by
\* get_current_active_user with 403, and the operation is not executed.
C19_InactiveUserForbidden ==
    /\ \A a \in access_tokens :
          (get_current_user(a) # NoRow /\ ~users[a.sub].is_active)
              => get_current_active_user(a).status = 403
    /\ \A p \in Procs :
          (req[p].pc = "done" /\ resp[p].detail = "Inactive user")
              => resp[p].status = 403 /\ resp[p].count = 0 /\ resp[p].sub = NoRow

\* the auth cookies among a set of cookies
AuthCookies(cookies) ==
    {c \in cookies :
        c.name \in {ACCESS_TOKEN_COOKIE_NAME, REFRESH_TOKEN_COOKIE_NAME}}

\* C20: once a browser has applied a clear_auth_cookies response it holds
\* neither auth cookie, whatever set_auth_cookies responses it applied
\* before, and the requests it then sends carry no auth cookie.
C20_CookieRoundTrip ==
    /\ [](client.applied[2] = "clear" => AuthCookies(jar) = {})
    /\ [][(client.applied[2] = "clear" /\ client'.applied = client.applied)
             => AuthCookies(client'.cookies) = {}]_vars

\* set, then clear, then a request to the refresh endpoint without cookies
C20_Witness ==
    /\ client.applied = <<"set", "clear">>
    /\ client.path = "/api/v1/auth/refresh-token"
    /\ client.cookies = {}
    /\ jar = {}

UpdatesPreferences ==
    /\ prefs_update'.status = 200
    /\ <<preferences, prefs_update>>' # <<preferences, prefs_update>>

\* C21: updating the Pomodoro preferences changes only the fields the request
\* set: every other section and every Pomodoro field the request leaves out
\* keeps the value it had.
C21_PreferencesFrame ==
    [][UpdatesPreferences =>
          /\ preferences'.theme = preferences.theme
          /\ \A f \in PreferenceFields :
                ~prefs_update'.request[f].set =>
                    preferences'.pomodoro[f] = preferences.pomodoro[f]]_vars

\* C22: per refresh-token row the only change any operation makes is
\* is_revoked false -> true: no row is deleted, no operation changes
\* token_hash, user_id or expires_at of a row or sets is_revoked back to false.
C22_RowOnlyRevoked ==
    [][/\ Len(tokens') >= Len(tokens)
       /\ \A r \in RowIds :
             /\ tokens'[r].token_hash = tokens[r].token_hash
             /\ tokens'[r].user_id = tokens[r].user_id
             /\ tokens'[r].expires_at = tokens[r].expires_at
             /\ tokens[r].is_revoked => tokens'[r].is_revoked]_vars

\* a rotation has consumed one row and a logout has revoked its successor
C22_Witness ==
    \E s \in successor, p \in Procs :
        /\ tokens[s[1]].is_revoked
        /\ req[p].pc = "done" /\ req[p].op = "logout"
        /\ req[p].tok = s[2]
        /\ resp[p].ret
        /\ tokens[s[2]].is_revoked

\* a step of p's refresh request other than the commit of a rotation
RefreshStepWithoutCommit(p) ==
    /\ req'[p] # req[p]
    /\ req'[p].op = "refresh"
    /\ ~RotationCommits(p)

\* C23: rotate_refresh_token fails whenever the token's row is missing,
\* expired, revoked or owned by an inactive user (the refresh request gets no
\* token), and a failing call changes nothing in the store: no row is revoked
\* and none inserted, also when the owner is inactive.
C23_FailedRotationChangesNothing ==
    /\ [](\A p \in Procs :
             (req[p].pc = "done" /\ req[p].op = "refresh" /\ ~req[p].valid0)
                 => /\ resp[p].status = 401
                    /\ resp[p].refresh = NoCookie
                    /\ resp[p].access = {})
    /\ [][\A p \in Procs :
             RefreshStepWithoutCommit(p) =>
                 /\ tokens' = tokens
                 /\ users' = users
                 /\ successor' = successor
                 /\ access_tokens' = access_tokens]_vars

\* a refresh refused for its inactive owner, its token still unrevoked
C23_Witness ==
    \E p \in Procs :
        /\ req[p].pc = "done" /\ req[p].op = "refresh"
        /\ req[p].cause = "inactive"
        /\ resp[p] = InvalidRefresh
        /\ ~tokens[RowOf(req[p].tok)].is_revoked
        /\ tokens[RowOf(req[p].tok)].expires_at > now

\* the Origin, or without one the origin of the Referer, is an allowed origin
FromAllowedOrigin(request) ==
    IF Truthy(request.Origin) THEN request.Origin.value \in allowed_origins
    ELSE /\ Truthy(request.Referer)
         /\ RefererOrigin(request.Referer) \in allowed_origins

\* a step in which /auth/refresh-token or /auth/logout revokes the row of the
\* refresh token in p's cookie
CookieTokenConsumed(p) ==
    /\ req[p].op \in {"refresh", "logout"}
    /\ req[p].tok # NoCookie
    /\ req'[p].pc = "done"
    /\ tokens' # tokens

\* C24: every POST on which a handler acts with the credential of a cookie
\* came from an allowed origin: a request let through only for its
\* Authorization: Bearer header never makes /auth/refresh-token or
\* /auth/logout consume or revoke the refresh token of its cookie.
C24_CookieActsOnlyFromAllowedOrigin ==
    [][\A p \in Procs :
          CookieTokenConsumed(p) => FromAllowedOrigin(http_request)]_vars

\* p's request has been answered with a refresh token and an access token
Issued(p) ==
    /\ req[p].pc = "done"
    /\ req[p].op \in {"register", "login", "refresh"}
    /\ resp[p].status = 200

\* C25: token ownership is preserved: the row a register or login creates
\* belongs to the user whose credentials were verified, the row a rotation
\* creates to the owner of the row it consumed, and the access token of the
\* same response has that user as subject.
C25_TokenOwnership ==
    /\ [](/\ \A s \in successor :
                tokens[s[2]].user_id = tokens[s[1]].user_id
          /\ \A p \in Procs :
                Issued(p) =>
                    /\ tokens[resp[p].refresh].user_id = resp[p].sub
                    /\ \A a \in resp[p].access : a.sub = resp[p].sub
                    /\ req[p].op = "refresh" =>
                           tokens[RowOf(req[p].tok)].user_id = resp[p].sub
                    /\ req[p].op = "login" =>
                           Lower(users[resp[p].sub].email) = req[p].email)
    /\ [][\A p \in Procs :
             (req[p].pc = "reg_insert" /\ resp'[p].status = 200) =>
                 /\ users'[resp'[p].sub].email = req[p].email
                 /\ users'[resp'[p].sub].username = req[p].username]_vars

\* the second user has rotated their token while the first holds one too
C25_Witness ==
    \E p \in Procs :
        /\ Issued(p) /\ req[p].op = "refresh"
        /\ resp[p].sub = 2
        /\ \E r \in RowIds : tokens[r].user_id = 1 /\ ~tokens[r].is_revoked

\* a step in which p's request is answered with tokens
IssuesTokens(p) ==
    /\ resp'[p] # resp[p]
    /\ resp'[p].status = 200
    /\ resp'[p].access # {}

\* C26: no access token and no refresh token is issued for a user whose
\* is_active is false: login and rotation refuse an inactive user and create
\* no refresh-token row for them.
C26_NoTokenForInactiveUser ==
    [][/\ \A p \in Procs :
             IssuesTokens(p) => users'[resp'[p].sub].is_active
       /\ Len(tokens') > Len(tokens) =>
             users'[tokens'[Len(tokens')].user_id].is_active]_vars

\* C27: a user can always end their session in progress: in every reachable
\* state, also after the session's learning project has been archived,
\* complete_session and abandon_session find the session and move it out of
\* in_progress.
C27_CanAlwaysEndSession ==
    \A i \in SessionIds :
        sessions[i].status = "in_progress" =>
            get_session(i, sessions[i].user_id) = i

\* C30: completed and abandoned are terminal: complete_session and
\* abandon_session take effect only on a session in progress; a completed or
\* abandoned session never changes again.
C30_EndedSessionsTerminal ==
    [][\A i \in SessionIds :
          sessions[i].status \in {"completed", "abandoned"} =>
              sessions'[i] = sessions[i]]_vars

\* the windows a limiter that never sweeps holds after the first n calls of
\* rl_log: is_allowed without _cleanup_old_entries
RECURSIVE NoSweepWindows(_)
NoSweepWindows(n) ==
    IF n = 0 THEN <<>>
    ELSE LET before == NoSweepWindows(n - 1)
             key == rl_log[n].key
             found == IF key \in DOMAIN before THEN before[key] ELSE <<>>
             window == PopOlder(found, rl_log[n].at - RateWindow)
             left == IF Len(window) < RateLimit
                     THEN Append(window, rl_log[n].at) ELSE window
         IN  [k \in DOMAIN before \cup {key} |->
                 IF k = key THEN left ELSE before[k]]

\* what the limiter that never sweeps answers to the n-th call
NoSweepAllows(n) ==
    LET before == NoSweepWindows(n - 1)
        key == rl_log[n].key
        found == IF key \in DOMAIN before THEN before[key] ELSE <<>>
    IN  Len(PopOlder(found, rl_log[n].at - RateWindow)) < RateLimit

\* C28: the periodic sweep never changes an admission decision: every call
\* of is_allowed, for every window length parse_rate_limit produces, returns
\* what a limiter without the sweep returns on the same calls.
C28_SweepChangesNoDecision ==
    \A n \in 1..Len(rl_log) : rl_log[n].is_allowed = NoSweepAllows(n)

====
